---- MODULE Spec2Model ----
(***************************************************************************)
(* Model of src/main.py: the Organization Policy notifier.  One run of     *)
(* compare_policies() fetches the baseline from the bucket, lists the      *)
(* current constraints, diffs them, opens a GitHub pull request, posts to  *)
(* Slack and Twitter and uploads a new baseline.  Runs follow one another  *)
(* (one invocation at a time); the bucket object, the GitHub branch and    *)
(* the organization's constraint listing persist between runs.             *)
(***************************************************************************)
EXTENDS Integers, Sequences, FiniteSets, TLC

\* ---------------------------------------------------------------- bounds
NumNames == 3            \* constraint names the organization can expose
MaxRuns == 2             \* successive invocations of compare_policies
MaxSourceChanges == 1    \* changes of the live listing the environment makes

\* ------------------------------------------------------------- characters
\* A string is a sequence of tokens.  The prefix "constraints/" is one token;
\* every other token is one character.
NL == "\n"
SP == " "
PREFIX == "constraints/"
Letters == <<"a", "b", "c", "d", "e">>
CharOrder == <<NL, SP, PREFIX>> \o Letters
Whitespace == {NL, SP}

Rank(ch) == CHOOSE k \in 1..Len(CharOrder) : CharOrder[k] = ch

\* Python's str < str : lexicographic on the characters.
RECURSIVE StrLess(_, _)
StrLess(s, t) ==
    IF t = <<>> THEN FALSE
    ELSE IF s = <<>> THEN TRUE
    ELSE IF Head(s) = Head(t) THEN StrLess(Tail(s), Tail(t))
    ELSE Rank(Head(s)) < Rank(Head(t))

\* Mutant: the lists are compared as they came, unsorted.
ListSortSkipped(l) == l

\* list.sort() on a list of strings.
ListSort(l) == SortSeq(l, StrLess)

SeqToSet(l) == {l[k] : k \in 1..Len(l)}

\* The orders in which a set can be enumerated as a list.
Orderings(S) ==
    {l \in [1..Cardinality(S) -> S] : \A x \in S : \E k \in 1..Cardinality(S) : l[k] = x}

\* The constraint names the policy API can return: "constraints/<x>".
Name(k) == <<PREFIX, Letters[k]>>
Names == {Name(k) : k \in 1..NumNames}

\* '\n'.join(new_policies)
RECURSIVE Join(_)
Join(l) ==
    IF l = <<>> THEN <<>>
    ELSE IF Len(l) = 1 THEN l[1]
    ELSE l[1] \o <<NL>> \o Join(Tail(l))

\* Iterating a text file: each line with its terminator, the last line
\* without one when the file does not end in a newline.
RECURSIVE FileLines(_, _)
FileLines(content, line) ==
    IF content = <<>> THEN (IF line = <<>> THEN <<>> ELSE <<line>>)
    ELSE IF Head(content) = NL
         THEN <<Append(line, NL)>> \o FileLines(Tail(content), <<>>)
         ELSE FileLines(Tail(content), Append(line, Head(content)))

\* Mutant: the lines are kept with their terminators.
RStripSkipped(s) == s

\* str.rstrip()
RECURSIVE RStrip(_)
RStrip(s) ==
    IF s # <<>> /\ s[Len(s)] \in Whitespace THEN RStrip(SubSeq(s, 1, Len(s) - 1)) ELSE s

\* [line.rstrip() for line in policy_file]
ReadPolicyLines(content) ==
    LET lines == FileLines(content, <<>>)
    IN  [k \in 1..Len(lines) |-> RStrip(lines[k])]

\* policy.split('constraints/')[-1]
RECURSIVE SplitLast(_)
SplitLast(s) ==
    IF \A k \in 1..Len(s) : s[k] # PREFIX THEN s
    ELSE SplitLast(Tail(s))

\* Mutant: every current constraint is taken as new.
NewPolicySetAll(current, old) == SeqToSet(current)

\* list(set(current_policies) - set(old_policies)) as a set
NewPolicySet(current, old) == SeqToSet(current) \ SeqToSet(old)


\* ------------------------------------------------------------------ state
VARIABLES
    live,              \* the constraints the organization exposes now
    changes,           \* changes of `live` made so far
    blob,              \* content of the POLICY_FILE object, or NoBlob
    saved,             \* the list written by the last upload (history)
    blob0,             \* the object when the run started (history)
    branch,            \* the branch "new_policies" exists in the repository
    pc,                \* position of the run
    exit_code,         \* "none" while running, then 0 or 1
    failed_at,         \* the call that ended the run with a failure
    old_policies,      \* compare_policies: old_policies
    current_policies,  \* compare_policies: current_policies
    new_policies,      \* compare_policies: new_policies
    pr_file_content,   \* create_pr_file_content: the names in the JSON dump
    github_token,      \* create_pr: github_token
    github_commit,     \* compare_policies: github_commit
    url,               \* post_to_slack: url
    tweet,             \* post_to_slack / post_to_twitter: tweet
    i,                 \* position of the running for loop in new_policies
    upload_policies,   \* upload_policy_file: new_policies
    log,               \* side effects of the run, in order
    run,               \* number of the run
    detected,          \* this run found the sorted lists to differ (history)
    created_branch,    \* this run created the branch (history)
    branch_held,       \* the branch existed when the run started and still does
    prev               \* what the previous run did (history)

vars == <<live, changes, blob, saved, branch, pc, exit_code, failed_at,
          old_policies, current_policies, new_policies, pr_file_content,
          github_token, github_commit, url, tweet, i, upload_policies,
          blob0, log, run, detected, created_branch, branch_held, prev>>

source == <<live, changes>>
store == <<blob, saved>>
locals == <<old_policies, current_policies, new_policies, pr_file_content,
            github_token, github_commit, url, tweet, i, upload_policies>>
history == <<run, blob0, detected, created_branch, branch_held, prev>>

NoBlob == "NoBlob"
None == "None"

NoLocals ==
    /\ old_policies = <<>>
    /\ current_policies = <<>>
    /\ new_policies = <<>>
    /\ pr_file_content = {}
    /\ github_token = None
    /\ github_commit = None
    /\ url = None
    /\ tweet = None
    /\ i = 0
    /\ upload_policies = <<>>

NoPrev == [ran |-> FALSE, aborted_with_branch |-> FALSE, detected |-> FALSE,
           uploaded |-> FALSE, current |-> {}, new |-> {}]

\* The bucket either holds no baseline or the file an earlier run uploaded.
Init ==
    /\ live \in SUBSET Names
    /\ changes = 0
    /\ \/ blob = NoBlob /\ saved = <<>>
       \/ \E S \in SUBSET Names : \E l \in Orderings(S) :
            blob = Join(l) /\ saved = l
    /\ blob0 = blob
    /\ branch = FALSE
    /\ pc = "fetch_old_policies"
    /\ exit_code = "none"
    /\ failed_at = ""
    /\ NoLocals
    /\ log = <<>>
    /\ run = 1
    /\ detected = FALSE
    /\ created_branch = FALSE
    /\ branch_held = FALSE
    /\ prev = NoPrev

\* -------------------------------------------------------------- outcomes
\* sys.exit(0) / falling off the end of compare_policies
ExitOk ==
    /\ pc' = "exited"
    /\ exit_code' = 0
    /\ failed_at' = ""

\* sys.exit(1), or an exception nobody catches
Fail(where) ==
    /\ pc' = "exited"
    /\ exit_code' = 1
    /\ failed_at' = where
    /\ UNCHANGED <<source, store, branch, locals, log, history>>

Effect(kind, policy, text) == [kind |-> kind, policy |-> policy, text |-> text]

\* get_latest_secret: the secret, None when FailedPrecondition is swallowed,
\* or any other exception of the client, which propagates.
SecretOutcomes == {"secret", None, "raise"}

\* create_twitter_connection: the api, None when the tweepy error is
\* swallowed, or an exception of get_twitter_secrets, which propagates.
TwitterConnectionOutcomes == {"api", None, "raise"}

\* ------------------------------------------------------- compare_policies
\* Mutant: a missing object is read as an empty baseline and the run goes on.
FetchOldPoliciesNoBootstrap ==
    /\ pc = "fetch_old_policies"
    /\ \/ /\ old_policies' = IF blob = NoBlob THEN <<>> ELSE ReadPolicyLines(blob)
          /\ pc' = "constraint_transform"
          /\ UNCHANGED <<source, store, branch, exit_code, failed_at, log, history,
                         current_policies, new_policies, pr_file_content,
                         github_token, github_commit, url, tweet, i,
                         upload_policies>>

\* fetch_old_policies(): the object is listed in the bucket and downloaded,
\* or it is missing and upload_policy_file() is called.
FetchOldPolicies ==
    /\ pc = "fetch_old_policies"
    /\ \/ /\ blob # NoBlob
          /\ old_policies' = ReadPolicyLines(blob)
          /\ pc' = "constraint_transform"
          /\ UNCHANGED <<source, store, branch, exit_code, failed_at, log,
                         history, current_policies, new_policies,
                         pr_file_content, github_token, github_commit, url,
                         tweet, i, upload_policies>>
       \/ /\ blob = NoBlob
          /\ pc' = "upload_policy_file"
          /\ UNCHANGED <<source, store, branch, exit_code, failed_at, locals,
                         log, history>>

\* Mutant: Slack is posted to before the pull request is created.
AfterCompareSlackFirst == "post_to_slack"

\* Where compare_policies goes when the sorted lists differ.
AfterCompare == "create_pr_file_content"

\* constraint_transform(), both sorts, the comparison and the difference.
ComparePolicies ==
    /\ pc = "constraint_transform"
    /\ \/ \E listing \in Orderings(live) :
            LET cur == ListSort(listing)
                old == ListSort(old_policies)
            IN  /\ current_policies' = cur
                /\ old_policies' = old
                /\ IF cur = old
                   THEN /\ ExitOk
                        /\ UNCHANGED <<new_policies, detected>>
                   ELSE /\ new_policies' \in Orderings(NewPolicySet(cur, old))
                        /\ detected' = TRUE
                        /\ pc' = AfterCompare
                        /\ UNCHANGED <<exit_code, failed_at>>
                /\ UNCHANGED <<source, store, branch, log, run, blob0,
                               created_branch, branch_held, prev,
                               pr_file_content, github_token, github_commit,
                               url, tweet, i, upload_policies>>
       \/ Fail("list_org_policies")

\* ------------------------------------------------ create_pr_file_content
CreatePrFileContent ==
    /\ pc = "create_pr_file_content"
    /\ \/ /\ pr_file_content' = live
          /\ pc' = "create_pr"
          /\ UNCHANGED <<source, store, branch, exit_code, failed_at, log,
                         history, old_policies, current_policies, new_policies,
                         github_token, github_commit, url, tweet, i,
                         upload_policies>>
       \/ Fail("list_org_policies")

\* create_pr: the token, the repository and the default branch.
CreatePrGetSource ==
    /\ pc = "create_pr"
    /\ \/ /\ github_token' \in SecretOutcomes \ {"raise"}
          /\ pc' = "create_git_ref"
          /\ UNCHANGED <<source, store, branch, exit_code, failed_at, log,
                         history, old_policies, current_policies, new_policies,
                         pr_file_content, github_commit, url, tweet, i,
                         upload_policies>>
       \/ Fail("get_latest_secret")
       \/ Fail("get_repo")
       \/ Fail("get_branch")

\* Mutant: an existing branch is reused.
CreatePrCreateGitRefReuse ==
    /\ pc = "create_git_ref"
    /\ \/ /\ github_token # None
          /\ branch' = TRUE
          /\ created_branch' = TRUE
          /\ pc' = "update_file"
          /\ UNCHANGED <<source, store, exit_code, failed_at, locals, log, run,
                         blob0, detected, branch_held, prev>>
       \/ Fail("create_git_ref")

\* create_pr: repo.create_git_ref.  GitHub refuses a reference that exists
\* and a request without a token.
CreatePrCreateGitRef ==
    /\ pc = "create_git_ref"
    /\ \/ /\ ~branch
          /\ github_token # None
          /\ branch' = TRUE
          /\ created_branch' = TRUE
          /\ pc' = "update_file"
          /\ UNCHANGED <<source, store, exit_code, failed_at, locals, log, run,
                         blob0, detected, branch_held, prev>>
       \/ Fail("create_git_ref")

\* create_pr: repo.get_contents and repo.update_file.
CreatePrUpdateFile ==
    /\ pc = "update_file"
    /\ \/ /\ github_commit' = "commit"
          /\ pc' = "create_pull"
          /\ UNCHANGED <<source, store, branch, exit_code, failed_at, log,
                         history, old_policies, current_policies, new_policies,
                         pr_file_content, github_token, url, tweet, i,
                         upload_policies>>
       \/ Fail("get_contents")
       \/ Fail("update_file")

\* create_pr: repo.create_pull, then back in compare_policies.
CreatePrCreatePull ==
    /\ pc = "create_pull"
    /\ \/ /\ log' = Append(log, Effect("pr", <<>>, pr_file_content))
          /\ pc' = "post_to_slack"
          /\ UNCHANGED <<source, store, branch, exit_code, failed_at, locals,
                         history>>
       \/ Fail("create_pull")

\* ----------------------------------------------------------- post_to_slack
\* url = get_latest_secret(...)
PostToSlackSecret ==
    /\ pc = "post_to_slack"
    /\ \/ /\ url' \in SecretOutcomes \ {"raise"}
          /\ pc' = "slack_twitter_connection"
          /\ UNCHANGED <<source, store, branch, exit_code, failed_at, log,
                         history, old_policies, current_policies, new_policies,
                         pr_file_content, github_token, github_commit, tweet,
                         i, upload_policies>>
       \/ Fail("get_latest_secret")

\* tweet = create_twitter_connection(), inside post_to_slack
PostToSlackTwitterConnection ==
    /\ pc = "slack_twitter_connection"
    /\ \/ /\ tweet' \in TwitterConnectionOutcomes \ {"raise"}
          /\ i' = 1
          /\ pc' = "slack_loop"
          /\ UNCHANGED <<source, store, branch, exit_code, failed_at, log,
                         history, old_policies, current_policies, new_policies,
                         pr_file_content, github_token, github_commit, url,
                         upload_policies>>
       \/ Fail("get_twitter_secrets")

\* Mutant: the exception of a post is printed and the loop goes on.
PostToSlackLoopSwallow ==
    /\ pc = "slack_loop"
    /\ \/ /\ i <= Len(new_policies)
          /\ url # None
          /\ log' = Append(log, Effect("chat", new_policies[i], new_policies[i]))
          /\ i' = i + 1
          /\ UNCHANGED <<source, store, branch, pc, exit_code, failed_at, history,
                         old_policies, current_policies, new_policies,
                         pr_file_content, github_token, github_commit, url, tweet,
                         upload_policies>>
       \/ /\ i <= Len(new_policies)
          /\ failed_at' = "slack"
          /\ i' = i + 1
          /\ UNCHANGED <<source, store, branch, pc, exit_code, log, history,
                         old_policies, current_policies, new_policies,
                         pr_file_content, github_token, github_commit, url, tweet,
                         upload_policies>>
       \/ /\ i > Len(new_policies)
          /\ pc' = "post_to_twitter"
          /\ UNCHANGED <<source, store, branch, exit_code, failed_at, locals,
                         log, history>>

\* for policy in new_policies: requests.request("POST", url, ...).
\* requests raises on a url of None.
PostToSlackLoop ==
    /\ pc = "slack_loop"
    /\ \/ /\ i <= Len(new_policies)
          /\ url # None
          /\ log' = Append(log, Effect("chat", new_policies[i], new_policies[i]))
          /\ i' = i + 1
          /\ UNCHANGED <<source, store, branch, pc, exit_code, failed_at,
                         history, old_policies, current_policies, new_policies,
                         pr_file_content, github_token, github_commit, url,
                         tweet, upload_policies>>
       \/ /\ i <= Len(new_policies)
          /\ Fail("slack")
       \/ /\ i > Len(new_policies)
          /\ pc' = "post_to_twitter"
          /\ UNCHANGED <<source, store, branch, exit_code, failed_at, locals,
                         log, history>>

\* --------------------------------------------------------- post_to_twitter
PostToTwitterConnection ==
    /\ pc = "post_to_twitter"
    /\ \/ /\ tweet' \in TwitterConnectionOutcomes \ {"raise"}
          /\ i' = 1
          /\ pc' = "twitter_loop"
          /\ UNCHANGED <<source, store, branch, exit_code, failed_at, log,
                         history, old_policies, current_policies, new_policies,
                         pr_file_content, github_token, github_commit, url,
                         upload_policies>>
       \/ Fail("get_twitter_secrets")

\* for policy in new_policies: tweet.update_status(...).  A tweet of None
\* has no update_status.
PostToTwitterLoop ==
    /\ pc = "twitter_loop"
    /\ \/ /\ i <= Len(new_policies)
          /\ tweet # None
          /\ log' = Append(log, Effect("tweet", new_policies[i],
                                       SplitLast(new_policies[i]) \o <<SP, github_commit>>))
          /\ i' = i + 1
          /\ UNCHANGED <<source, store, branch, pc, exit_code, failed_at,
                         history, old_policies, current_policies, new_policies,
                         pr_file_content, github_token, github_commit, url,
                         tweet, upload_policies>>
       \/ /\ i <= Len(new_policies)
          /\ Fail("twitter")
       \/ /\ i > Len(new_policies)
          /\ pc' = "upload_policy_file"
          /\ UNCHANGED <<source, store, branch, exit_code, failed_at, locals,
                         log, history>>

\* ------------------------------------------------------ upload_policy_file
\* new_policies = constraint_transform(), the local file,
\* blob.upload_from_filename, sys.exit(0).
UploadPolicyFile ==
    /\ pc = "upload_policy_file"
    /\ \/ \E listing \in Orderings(live) :
            /\ upload_policies' = listing
            /\ blob' = Join(listing)
            /\ saved' = listing
            /\ log' = Append(log, Effect("save", <<>>, listing))
            /\ ExitOk
            /\ UNCHANGED <<source, branch, history, old_policies,
                           current_policies, new_policies, pr_file_content,
                           github_token, github_commit, url, tweet, i>>
       \/ Fail("list_org_policies")
       \/ Fail("upload_from_filename")

\* ------------------------------------------------------------ environment
\* The places where a run queries the listing.
QueryPoints == {"constraint_transform", "create_pr_file_content",
                "upload_policy_file"}

\* The provider adds or withdraws constraints at any moment.  A run sees the
\* listing only at its queries, so a change is taken just before one.
SourceChange ==
    /\ changes < MaxSourceChanges
    /\ pc \in QueryPoints
    /\ \E S \in SUBSET Names :
         /\ S # live
         /\ live' = S
    /\ changes' = changes + 1
    /\ UNCHANGED <<store, branch, pc, exit_code, failed_at, locals, log, history>>

\* Somebody merges the pull request or deletes the branch.  A run sees the
\* branch only at create_git_ref, so the deletion is taken just before it.
BranchDeleted ==
    /\ branch
    /\ pc = "create_git_ref"
    /\ branch' = FALSE
    /\ branch_held' = FALSE
    /\ UNCHANGED <<source, store, pc, exit_code, failed_at, locals, log, run,
                   blob0, detected, created_branch, prev>>

\* The scheduler triggers the function again: announce_kickoff.
AnnounceKickoff ==
    /\ pc = "exited"
    /\ run < MaxRuns
    /\ run' = run + 1
    /\ prev' = [ran |-> TRUE,
                aborted_with_branch |-> created_branch /\ exit_code = 1,
                detected |-> detected,
                uploaded |-> \E k \in 1..Len(log) : log[k].kind = "save",
                current |-> SeqToSet(current_policies),
                new |-> SeqToSet(new_policies)]
    /\ detected' = FALSE
    /\ created_branch' = FALSE
    /\ branch_held' = branch
    /\ pc' = "fetch_old_policies"
    /\ exit_code' = "none"
    /\ failed_at' = ""
    /\ old_policies' = <<>>
    /\ current_policies' = <<>>
    /\ new_policies' = <<>>
    /\ pr_file_content' = {}
    /\ github_token' = None
    /\ github_commit' = None
    /\ url' = None
    /\ tweet' = None
    /\ i' = 0
    /\ upload_policies' = <<>>
    /\ blob0' = blob
    /\ log' = <<>>
    /\ UNCHANGED <<source, store, branch>>

\* The steps of one run.
RunStep ==
    \/ FetchOldPolicies
    \/ ComparePolicies
    \/ CreatePrFileContent
    \/ CreatePrGetSource
    \/ CreatePrCreateGitRef
    \/ CreatePrUpdateFile
    \/ CreatePrCreatePull
    \/ PostToSlackSecret
    \/ PostToSlackTwitterConnection
    \/ PostToSlackLoop
    \/ PostToTwitterConnection
    \/ PostToTwitterLoop
    \/ UploadPolicyFile

\* One run against a provider whose listing changes.
Next == RunStep \/ SourceChange

Spec == Init /\ [][Next]_vars

\* Successive runs on an unchanged listing; the branch an earlier run left
\* may be deleted.
NextRuns == RunStep \/ BranchDeleted \/ AnnounceKickoff

SpecRuns == Init /\ [][NextRuns]_vars

\* ------------------------------------------------------------ properties
Entries(kind) == {k \in 1..Len(log) : log[k].kind = kind}
Count(kind) == Cardinality(Entries(kind))
AnnouncedSet(kind) == {log[k].policy : k \in Entries(kind)}
OncePerSink(kind) == \A j, k \in Entries(kind) : j # k => log[j].policy # log[k].policy
BaselineSet(content) == SeqToSet(ReadPolicyLines(content))
StepOrder(kind) ==
    CASE kind = "pr" -> 1 [] kind = "chat" -> 2 [] kind = "tweet" -> 3 [] kind = "save" -> 4
Ended == pc = "exited"

\* C1: in a run that finds a baseline whose names equal the current listing
\* as sets, whatever the order of the file and of the listing, no difference
\* is detected, nothing is sent to GitHub, Slack or Twitter and the object is
\* not written.
C1_EqualSetsNoOp ==
    /\ detected => SeqToSet(current_policies) # SeqToSet(old_policies)
    /\ (blob0 # NoBlob /\ ~detected) =>
           /\ log = <<>>
           /\ blob = blob0
           /\ ~created_branch

\* C1 witness: a run ended at "No new Org Policies Detected." on a baseline
\* file of two names or more stored in another order than the sorted one.
C1_Witness ==
    /\ Ended /\ exit_code = 0 /\ ~detected /\ blob0 # NoBlob
    /\ Len(current_policies) >= 2
    /\ saved # current_policies
    /\ SeqToSet(saved) = SeqToSet(current_policies)

\* C2 as stated: every run that finds no baseline uploads exactly once what
\* the listing returned, notifies nobody and ends with exit 0 before the
\* comparison.
C2_BootstrapAlwaysUploads ==
    (blob0 = NoBlob /\ Ended) =>
        /\ exit_code = 0
        /\ ~detected
        /\ log = <<Effect("save", <<>>, upload_policies)>>
        /\ blob = Join(upload_policies)

\* C2 amended: a run that finds no baseline never reaches the comparison and
\* sends nothing to GitHub, Slack or Twitter; when its listing query and its
\* upload succeed it uploads exactly once, the uploaded names are the listing,
\* and it ends with exit 0; when one of them fails it ends with exit 1 and
\* no object.
C2_Bootstrap ==
    blob0 = NoBlob =>
        /\ ~detected
        /\ pc \in {"fetch_old_policies", "upload_policy_file", "exited"}
        /\ current_policies = <<>> /\ new_policies = <<>>
        /\ Count("pr") = 0 /\ Count("chat") = 0 /\ Count("tweet") = 0
        /\ ~created_branch
        /\ Count("save") <= 1
        /\ (Ended /\ failed_at = "" /\ changes = 0) =>
               SeqToSet(upload_policies) = live
        /\ (Ended /\ failed_at = "") =>
               /\ exit_code = 0
               /\ log = <<Effect("save", <<>>, upload_policies)>>
               /\ blob = Join(upload_policies)
               /\ BaselineSet(blob) = SeqToSet(upload_policies)
        /\ (Ended /\ failed_at # "") =>
               /\ exit_code = 1
               /\ log = <<>>
               /\ blob = NoBlob

\* C2 witness: a first run uploaded a baseline of two names or more.
C2_Witness ==
    /\ blob0 = NoBlob /\ Ended /\ exit_code = 0
    /\ Count("save") = 1
    /\ Len(upload_policies) >= 2

\* C3: in a run that detects a difference, Slack and Twitter are told only
\* names of the current listing that the baseline lacks, each at most once
\* per sink, and when the run ends without a failure each sink was told
\* exactly those names; each tweet carries the name's suffix and the commit.
C3_AnnouncedIsDifference ==
    detected =>
        LET diff == {p \in SeqToSet(current_policies) : p \notin SeqToSet(old_policies)}
        IN  /\ AnnouncedSet("chat") \subseteq diff
            /\ AnnouncedSet("tweet") \subseteq diff
            /\ OncePerSink("chat")
            /\ OncePerSink("tweet")
            /\ \A k \in Entries("tweet") :
                   log[k].text = <<log[k].policy[2], SP, "commit">>
            /\ (Ended /\ exit_code = 0) =>
                   /\ AnnouncedSet("chat") = diff
                   /\ AnnouncedSet("tweet") = diff

\* C3 witness: a run ended without failure after announcing two new names
\* next to a name the baseline already had.
C3_Witness ==
    /\ detected /\ Ended /\ exit_code = 0
    /\ Count("chat") = 2 /\ Count("tweet") = 2
    /\ SeqToSet(current_policies) \cap SeqToSet(old_policies) # {}

\* C4 as stated: when the current listing is a strict subset of the baseline,
\* nothing is new, nothing is posted to Slack or Twitter, and the run that
\* ends with the upload leaves the object equal to that listing.
C4_RemovalOverwrites ==
    (detected /\ blob0 # NoBlob
        /\ SeqToSet(current_policies) \subseteq BaselineSet(blob0)
        /\ SeqToSet(current_policies) # BaselineSet(blob0)) =>
        /\ new_policies = <<>>
        /\ Count("chat") = 0 /\ Count("tweet") = 0
        /\ (Ended /\ exit_code = 0) =>
               BaselineSet(blob) = SeqToSet(current_policies)

\* C5 as stated: the baseline a detecting run writes is the listing it
\* compared, so every name that enters the baseline was in new_policies.
C5_SavedIsCompared ==
    (detected /\ blob0 # NoBlob /\ Count("save") = 1) =>
        /\ SeqToSet(saved) = SeqToSet(current_policies)
        /\ (BaselineSet(blob) \ BaselineSet(blob0)) \subseteq SeqToSet(new_policies)

\* C6: in a run that detects a difference the side effects come in the order
\* pull request, Slack posts, tweets, upload: no post precedes the pull
\* request, and the upload follows every post of the run.
C6_EffectOrder ==
    detected =>
        /\ \A j, k \in 1..Len(log) :
               j < k => StepOrder(log[j].kind) <= StepOrder(log[k].kind)
        /\ Count("pr") <= 1 /\ Count("save") <= 1
        /\ (Count("chat") + Count("tweet") > 0) => log[1].kind = "pr"
        /\ Count("save") = 1 =>
               /\ Count("pr") = 1
               /\ Count("chat") = Len(new_policies)
               /\ Count("tweet") = Len(new_policies)

\* C6 witness: a run went through the pull request, two Slack posts, two
\* tweets and the upload.
C6_Witness ==
    /\ detected /\ Ended /\ exit_code = 0
    /\ Len(log) = 6
    /\ Len(new_policies) = 2

\* C7: the names read back from the object are, as a set, the names the last
\* upload wrote, whatever their order and also for the empty list.
C7_RoundTrip ==
    /\ blob # NoBlob => BaselineSet(blob) = SeqToSet(saved)
    /\ pc = "constraint_transform" => SeqToSet(old_policies) = SeqToSet(saved)

\* C7 witness: a run downloaded the two names or more, not in sorted order,
\* that the run before it uploaded.
C7_Witness ==
    /\ prev.uploaded
    /\ pc = "constraint_transform"
    /\ Len(old_policies) >= 2
    /\ old_policies = saved
    /\ ListSort(saved) # saved

StaleRun == branch_held /\ blob0 # NoBlob

\* C9 as stated: the run after one that created the branch and aborted,
\* its listing queries answered as before, fails at the creation of the
\* branch.
C9_FailsAtBranchCreation ==
    (StaleRun /\ prev.aborted_with_branch /\ detected /\ Ended
        /\ SeqToSet(current_policies) = prev.current
        /\ failed_at # "list_org_policies") =>
        failed_at = "create_git_ref"

\* C9 amended: while the branch left by an earlier run exists, a run that
\* finds a baseline opens no pull request, posts nothing and leaves the
\* object as it is; if it detects a difference it ends with exit 1 at the
\* creation of the branch or at a call before it; after an aborted run that
\* created the branch, the same listing gives the same new_policies.
C9_BranchKeepsBaselineStale ==
    StaleRun =>
        /\ log = <<>>
        /\ blob = blob0
        /\ ~created_branch
        /\ pc \in {"fetch_old_policies", "constraint_transform",
                   "create_pr_file_content", "create_pr", "create_git_ref",
                   "exited"}
        /\ (Ended /\ detected) =>
               /\ exit_code = 1
               /\ failed_at \in {"list_org_policies", "get_latest_secret",
                                 "get_repo", "get_branch", "create_git_ref"}
        /\ (prev.aborted_with_branch /\ detected
              /\ SeqToSet(current_policies) = prev.current) =>
               SeqToSet(new_policies) = prev.new

\* C9 witness: the run after an aborted run that created the branch found
\* the same two new names or more and failed at the creation of the branch.
C9_Witness ==
    /\ StaleRun /\ prev.aborted_with_branch
    /\ Ended /\ failed_at = "create_git_ref"
    /\ SeqToSet(current_policies) = prev.current
    /\ SeqToSet(new_policies) = prev.new
    /\ Len(new_policies) >= 2

\* C10 as stated: a failure of the Twitter credentials or connection never
\* keeps a Slack post of the run from being sent.
C10_SlackIndependentOfTwitter ==
    (detected /\ failed_at = "get_twitter_secrets") =>
        AnnouncedSet("chat") = SeqToSet(new_policies)

====
